---- MODULE Spec2Model ----
(***************************************************************************)
(* Model of book_cli (src/src/main.rs): the cover-download pipeline.       *)
(*                                                                         *)
(* Strings on which the program computes (quantity strings, cover paths,   *)
(* content identifiers, dedup keys) are sequences of Unicode code points;  *)
(* file contents and HTTP bodies are sequences of bytes.  Opaque names     *)
(* (asset ids, policy ids) are TLA+ strings.  The file system is a         *)
(* function from the existing paths to their contents.                     *)
(***************************************************************************)
EXTENDS Integers, Sequences, FiniteSets, TLC

VARIABLES
    \* ---- inputs of a run (command line, enumeration API answer) ----
    assets,         \* Vec<AssetPolicy> returned by assets_policy_by_id
    max_files,      \* args[3] parsed as u32
    \* ---- environment ----
    disk,           \* work_dir: [existing path -> bytes]
    \* ---- program state ----
    pc,             \* position of the single thread of control
    result,         \* "running" | "ok" | "error" | "panic" | "crashed"
    collection_ids, \* HashSet<String> returned by collections()
    file_hashes,    \* HashSet<String> of main, threaded through fetch_files
    file_count,     \* u32 of main
    chunk_no,       \* index of the chunk being processed
    files_needed,   \* parameter of fetch_files
    found_files,    \* local of fetch_files
    idx,            \* position of the for loop of fetch_files in its chunk
    cid,            \* local of fetch_files
    asset_data,     \* bytes returned by download_binary
    delays,         \* what is left of retry_strategy
    \* ---- observation (history) variables, per run ----
    run,            \* number of the run (the tool invoked again: run + 1)
    prev,           \* result of the previous run ("none" for the first)
    disk0,          \* the disk when this run started
    written,        \* files this run renamed to a final path
    present,        \* assets this run counted as already on disk
    fetched,        \* download_binary invocations of this run, in order
    attempts,       \* HTTP GETs issued by the current download_binary call
    apiCalls,       \* calls to the blockchain-data API
    fsOps,          \* file system calls (exists, read, write, rename)
    dir,            \* what the directory service answered
    fail,           \* the step at which the run failed ("" while it has not)
    out             \* lines printed

vars == <<assets, max_files, disk, pc, result, collection_ids, file_hashes,
          file_count, chunk_no, files_needed, found_files, idx, cid,
          asset_data, delays, run, prev, disk0, written, present, fetched,
          attempts, apiCalls, fsOps, dir, fail, out>>

----------------------------------------------------------------------------
(* Bounds of the model *)

\* longest run of assets other than zero-quantity filler in an asset list
MaxAssets == 2
\* largest total_files argument
MaxFilesArg == 2
\* how many times the tool is invoked on the same work directory
MaxRuns == 2

----------------------------------------------------------------------------
(* Program constants *)

\* let chunk_size = 10;
chunk_size == 10
\* .take(3)
RetryTake == 3
\* ExponentialBackoff::from_millis(10)
BackoffBase == 10
\* cid.drain(0..7)
PrefixLen == 7
\* i32::MAX
I32Max == 2147483647

----------------------------------------------------------------------------
(* Strings, as sequences of code points *)

\* "ipfs://"
StrIpfs == <<105, 112, 102, 115, 58, 47, 47>>
\* "Qa" and "Qb": two content identifiers the gateway serves
CidA == <<81, 97>>
CidB == <<81, 98>>
\* quantity strings "1", "2", "0", "-1", "x", "2147483648"
Qty1 == <<49>>
Qty2 == <<50>>
Qty0 == <<48>>
QtyNeg == <<45, 49>>
QtyBad == <<120>>
QtyBig == <<50, 49, 52, 55, 52, 56, 51, 54, 52, 56>>

None == <<>>
Some(x) == <<x>>

Min(a, b) == IF a < b THEN a ELSE b

----------------------------------------------------------------------------
(* Pure functions of the program *)

IsDigit(c) == c >= 48 /\ c <= 57

\* i32::from_str_radix accumulates digit by digit with checked_mul and
\* checked_add (checked_sub after a minus sign); Overflow stands for the Err
Overflow == [ok |-> FALSE, val |-> 0]

RECURSIVE Accumulate(_, _, _)
Accumulate(acc, digits, negative) ==
    IF ~acc.ok \/ digits = <<>> THEN acc
    ELSE LET d == digits[1] - 48
             v == acc.val
         IN  IF negative
             THEN IF 0 - v > I32Max \div 10 \/ d - 1 > v * 10 + I32Max
                  THEN Overflow
                  ELSE Accumulate([ok |-> TRUE, val |-> v * 10 - d], Tail(digits), negative)
             ELSE IF v > I32Max \div 10 \/ d > I32Max - v * 10
                  THEN Overflow
                  ELSE Accumulate([ok |-> TRUE, val |-> v * 10 + d], Tail(digits), negative)

\* str::parse::<i32>(): an optional sign, then one or more ASCII digits, the
\* value within the range of i32; anything else is an Err
ParseI32(s) ==
    LET signed == s # <<>> /\ s[1] \in {43, 45}
        digits == IF signed THEN Tail(s) ELSE s
    IN  IF digits = <<>> \/ \E i \in 1..Len(digits) : ~IsDigit(digits[i])
        THEN [ok |-> FALSE, val |-> 0]
        ELSE Accumulate([ok |-> TRUE, val |-> 0], digits, signed /\ s[1] = 45)

\* A u32 is held as its 32 bits read in two's complement, so that a value of
\* 2^31 or more is a negative number here; sums and differences wrap as the
\* bits do in a release build
SubU32(a, b) == a - b
AddU32(a, b) == a + b
GeU32(a, b) == IF (a >= 0) = (b >= 0) THEN a >= b ELSE a < 0
GtU32(a, b) == a # b /\ GeU32(a, b)

\* assets.chunks(chunk_size)
Chunks(s, n) ==
    [k \in 1..((Len(s) + n - 1) \div n) |->
        SubSeq(s, (k - 1) * n + 1, Min(k * n, Len(s)))]

\* work_dir + "/" + asset and work_dir + "/" + asset + ".tmp"
filename(a) == <<a, "">>
temp_filename(a) == <<a, ".tmp">>

\* the file fs::write is given (line 140)
WriteToFinal(a) == filename(a)
WriteTarget(a) == temp_filename(a)

\* if found_files >= files_needed { break }
EnoughPastBudget(found, needed) == GtU32(found, needed)
Enough(found, needed) == GeU32(found, needed)

\* if qty > 0
HoldsWithZero(qty) == qty >= 0
Holds(qty) == qty > 0

\* file_hashes.contains(cid)
Seen(hashes, c) == c \in hashes

\* cid.drain(0..7): panics when the range is out of bounds
DrainOk(path) == Len(path) >= PrefixLen
Drain(path) == SubSeq(path, PrefixLen + 1, Len(path))

\* json["files"][0]["src"].as_str(), inside onchain_metadata.and_then
get_high_res_cover_path(details) ==
    IF details.onchain_metadata = None THEN None
    ELSE LET json == details.onchain_metadata[1]
         IN  IF /\ "files" \in DOMAIN json
                /\ Len(json.files) >= 1
                /\ "src" \in DOMAIN json.files[1]
             THEN Some(json.files[1].src)
             ELSE None

\* get_high_res_cover_path prints "Found high-res cover" whenever
\* onchain_metadata is Some
PrintsFound(details) == details.onchain_metadata # None

\* Sha256: 32 bytes that depend on every byte of the input (a stand-in mixing
\* function; the model needs equal inputs to give equal digests and the few
\* contents it uses to give different ones)
DigestLen == 32

RECURSIVE MixSum(_, _)
MixSum(t, i) ==
    IF t = <<>> THEN 0
    ELSE MixSum(SubSeq(t, 1, Len(t) - 1), i) + (Len(t) + i) * 13 * t[Len(t)]

Sha256(t) == [i \in 1..DigestLen |-> (i * 37 + MixSum(t, i) + Len(t) * 101) % 256]

\* String::from_utf8_lossy: ASCII bytes and well-formed two-byte sequences
\* decode to their code point, any other byte to U+FFFD
RECURSIVE Utf8Lossy(_)
Utf8Lossy(b) ==
    IF b = <<>> THEN <<>>
    ELSE IF b[1] < 128 THEN <<b[1]>> \o Utf8Lossy(Tail(b))
    ELSE IF /\ b[1] >= 194 /\ b[1] <= 223 /\ Len(b) >= 2
            /\ b[2] >= 128 /\ b[2] <= 191
         THEN <<(b[1] - 192) * 64 + (b[2] - 128)>> \o Utf8Lossy(SubSeq(b, 3, Len(b)))
    ELSE <<65533>> \o Utf8Lossy(Tail(b))

calculate_cid(t) == Utf8Lossy(Sha256(t))

\* file_hashes.insert(..)
InsertNothing(hashes, key) == hashes
Insert(hashes, key) == hashes \cup {key}

\* lines 144-149: found_files after an asset skipped as a duplicate
AfterDuplicateCounted(found) == found + 1
AfterDuplicate(found) == found

\* ExponentialBackoff::from_millis(10).map(jitter).take(3): three delays, of
\* at most 10, 100 and 1000 ms (jitter scales each by a factor in [0, 1))
retry_strategy_four == [i \in 1..(RetryTake + 1) |-> BackoffBase ^ i]
retry_strategy == [i \in 1..RetryTake |-> BackoffBase ^ i]

\* collections(): Err when the request fails or the body of a success answer
\* does not parse, the set of collection_id of a success answer, the empty set
\* for any other status
collections_status_fatal(resp) ==
    IF resp.kind = "ok" THEN [ok |-> TRUE, val |-> {resp.data[i] : i \in 1..Len(resp.data)}]
    ELSE [ok |-> FALSE, val |-> {}]
collections(resp) ==
    IF resp.kind = "unreachable" THEN [ok |-> FALSE, val |-> {}]
    ELSE IF resp.kind = "status" THEN [ok |-> TRUE, val |-> {}]
    ELSE IF resp.kind = "badjson" THEN [ok |-> FALSE, val |-> {}]
    ELSE [ok |-> TRUE, val |-> {resp.data[i] : i \in 1..Len(resp.data)}]

\* collection_ids.contains(policy_id)
KnownWhatever(ids, p) == TRUE
Known(ids, p) == p \in ids

----------------------------------------------------------------------------
(* The environment: command line, services, gateway *)

\* args[1]
policy_id == "p1"

\* what the directory service may answer to the one GET of collections()
DirectoryResponses ==
    { [kind |-> "unreachable", data |-> <<>>],
      [kind |-> "status",      data |-> <<>>],
      [kind |-> "badjson",     data |-> <<>>],
      [kind |-> "ok",          data |-> <<"p1", "p2">>],
      [kind |-> "ok",          data |-> <<"p2">>] }

\* what assets_by_id answers for each asset of the policy
Meta(src) == [name |-> "book", files |-> << [src |-> src] >>]

AssetDetailsOf(a) ==
    CASE a = "a1" -> [onchain_metadata |-> Some(Meta(StrIpfs \o CidA))]
      [] a = "a2" -> [onchain_metadata |-> Some(Meta(StrIpfs \o CidA))]
      [] a = "a3" -> [onchain_metadata |-> Some(Meta(StrIpfs \o CidB))]
      [] a = "a4" -> [onchain_metadata |-> None]
      [] a = "a5" -> [onchain_metadata |-> Some([name |-> "book"])]
      [] a = "a6" -> [onchain_metadata |-> Some(Meta(CidA))]
      [] OTHER    -> [onchain_metadata |-> None]

\* the content the gateway serves at base + cid, and the body of its answer
\* when the status is not a success
Served == {CidA, CidB}
ContentOf(c) == IF c = CidA THEN <<1, 2>> ELSE <<3>>
ErrorBody == <<0>>

\* one GET of the gateway: a transport error, a success answer with the
\* content, an answer with another status, or an answer whose body cannot be
\* read to the end
HttpOutcomes(c) ==
    {"err", "status", "body"} \cup (IF c \in Served THEN {"ok"} ELSE {})

\* the asset lists assets_policy_by_id may return: zero-quantity records up
\* to a chunk offset, then at most MaxAssets records of the policy
Filler == [asset |-> "z", quantity |-> Qty0]

AssetRecords ==
    { [asset |-> "a1", quantity |-> Qty1],
      [asset |-> "a2", quantity |-> Qty1],
      [asset |-> "a3", quantity |-> Qty2],
      [asset |-> "a4", quantity |-> Qty1],
      [asset |-> "a5", quantity |-> Qty1],
      [asset |-> "a6", quantity |-> Qty1],
      [asset |-> "a2", quantity |-> QtyNeg],
      [asset |-> "a1", quantity |-> QtyBad],
      [asset |-> "a3", quantity |-> QtyBig] }

Offsets == {0, chunk_size - 1}

AssetLists ==
    { [i \in 1..off |-> Filler] \o core :
        off \in Offsets,
        core \in UNION { [1..n -> AssetRecords] : n \in 0..MaxAssets } }

EmptyDisk == [p \in {} |-> <<>>]

\* the work directory before the first run: empty, or holding the cover of
\* a1 as an earlier run left it
InitialDisks ==
    { EmptyDisk, [p \in {<<"a1", "">>} |-> ContentOf(CidA)] }

----------------------------------------------------------------------------
(* State *)

TheChunks == Chunks(assets, chunk_size)
Chunk == TheChunks[chunk_no]
Cur == Chunk[idx]

ExistsNever(p) == FALSE

Exists(p) == p \in DOMAIN disk
WriteFile(d, p, bytes) == [q \in DOMAIN d \cup {p} |-> IF q = p THEN bytes ELSE d[q]]
RenameFile(d, from, to) ==
    [q \in (DOMAIN d \ {from}) \cup {to} |-> IF q = to THEN d[from] ELSE d[q]]

Init ==
    /\ assets \in AssetLists
    /\ max_files \in 0..MaxFilesArg
    /\ disk \in InitialDisks
    /\ pc = "collections"
    /\ result = "running"
    /\ collection_ids = {}
    /\ file_hashes = {}
    /\ file_count = 0
    /\ chunk_no = 0
    /\ files_needed = 0
    /\ found_files = 0
    /\ idx = 0
    /\ cid = <<>>
    /\ asset_data = <<>>
    /\ delays = <<>>
    /\ run = 1
    /\ prev = "none"
    /\ disk0 = disk
    /\ written = {}
    /\ present = <<>>
    /\ fetched = <<>>
    /\ attempts = 0
    /\ apiCalls = 0
    /\ fsOps = 0
    /\ dir = "none"
    /\ fail = ""
    /\ out = <<>>

inputs == <<assets, max_files>>
history == <<run, prev, disk0>>
mainVars == <<collection_ids, file_count, chunk_no, files_needed>>
loopVars == <<found_files, idx>>
dlVars == <<cid, asset_data, delays, attempts>>

\* the run ends: Ok(()), an Err returned by main, a panic, or the process killed
Finish(res, why) ==
    /\ pc' = "done"
    /\ result' = res
    /\ fail' = why

Continue(to) ==
    /\ pc' = to
    /\ UNCHANGED <<result, fail>>

----------------------------------------------------------------------------
(* main *)

\* let collection_ids = collections().await?;  if collection_ids.contains(..)
\* { .. } else { print!("invalid policy id ..") }
Collections ==
    /\ pc = "collections"
    /\ \E resp \in DirectoryResponses :
        LET r == collections(resp)
        IN  /\ dir' = IF resp.kind = "ok"
                      THEN IF \E i \in 1..Len(resp.data) : resp.data[i] = policy_id
                           THEN "listed" ELSE "unlisted"
                      ELSE resp.kind
            /\ collection_ids' = r.val
            /\ IF ~r.ok
               THEN Finish("error", "collections") /\ out' = out
               ELSE IF Known(r.val, policy_id)
               THEN Continue("enumerate") /\ out' = out
               ELSE Finish("ok", "") /\ out' = Append(out, <<"invalid", policy_id>>)
    /\ UNCHANGED <<inputs, disk, file_hashes, file_count, chunk_no, files_needed,
                   loopVars, dlVars, history, written, present, fetched,
                   apiCalls, fsOps>>

\* let assets = api.assets_policy_by_id(policy_id).await?;
AssetsPolicyById ==
    /\ pc = "enumerate"
    /\ apiCalls' = apiCalls + 1
    /\ \E ok \in BOOLEAN :
        IF ok THEN Continue("loop") ELSE Finish("error", "enumerate")
    /\ UNCHANGED <<inputs, disk, mainVars, file_hashes, loopVars, dlVars,
                   history, written, present, fetched, fsOps, dir, out>>

\* for chunk in chunks { file_count += fetch_files(.., max_files - file_count) }
\* the u32 subtraction panics on overflow in a debug build and wraps in a
\* release build
NextChunk ==
    /\ pc = "loop"
    /\ \E build \in {"debug", "release"} :
        IF chunk_no >= Len(TheChunks)
        THEN Finish("ok", "") /\ UNCHANGED <<chunk_no, files_needed, loopVars>>
        ELSE IF build = "debug" /\ GtU32(file_count, max_files)
        THEN Finish("panic", "subtract") /\ UNCHANGED <<chunk_no, files_needed, loopVars>>
        ELSE /\ Continue("asset")
             /\ chunk_no' = chunk_no + 1
             /\ files_needed' = SubU32(max_files, file_count)
             /\ found_files' = 0
             /\ idx' = 1
    /\ UNCHANGED <<inputs, disk, collection_ids, file_count, file_hashes, dlVars,
                   history, written, present, fetched, apiCalls, fsOps, dir, out>>

\* fetch_files returned Ok(found_files): file_count += ..; if file_count >=
\* max_files { break }
Return ==
    /\ pc = "ret"
    /\ file_count' = AddU32(file_count, found_files)
    /\ IF GeU32(file_count', max_files) THEN Finish("ok", "") ELSE Continue("loop")
    /\ UNCHANGED <<inputs, disk, collection_ids, chunk_no, files_needed,
                   file_hashes, loopVars, dlVars, history, written, present,
                   fetched, apiCalls, fsOps, dir, out>>

----------------------------------------------------------------------------
(* fetch_files *)

NextAssetAgain ==
    /\ idx' = idx
    /\ Continue("asset")

NextAsset ==
    /\ idx' = idx + 1
    /\ Continue("asset")

\* lines 113-125 and 155-156: the head of the loop body, up to the test of
\* Path::exists
ExamineAsset ==
    /\ pc = "asset"
    /\ IF idx > Len(Chunk)
       THEN Continue("ret") /\ UNCHANGED <<idx, fsOps, out>>
       ELSE LET qty == ParseI32(Cur.quantity)
            IN  IF ~qty.ok
                THEN Finish("error", "quantity") /\ UNCHANGED <<idx, fsOps, out>>
                ELSE IF Enough(found_files, files_needed)
                THEN Continue("ret") /\ UNCHANGED <<idx, fsOps, out>>
                ELSE IF ~Holds(qty.val)
                THEN NextAsset /\ UNCHANGED <<fsOps, out>>
                ELSE /\ fsOps' = fsOps + 1
                     /\ idx' = idx
                     /\ IF Exists(filename(Cur.asset))
                        THEN /\ Continue("read")
                             /\ out' = Append(out, <<"already", Cur.asset>>)
                        ELSE Continue("detail") /\ out' = out
    /\ UNCHANGED <<inputs, disk, mainVars, file_hashes, found_files, dlVars,
                   history, written, present, fetched, apiCalls, dir>>

\* lines 159-163: the file is on disk already
ReadExisting ==
    /\ pc = "read"
    /\ fsOps' = fsOps + 1
    /\ \E ok \in BOOLEAN :
        IF ok
        THEN /\ file_hashes' = Insert(file_hashes, calculate_cid(disk[filename(Cur.asset)]))
             /\ found_files' = found_files + 1
             /\ present' = Append(present, Cur.asset)
             /\ NextAsset
        ELSE /\ Finish("error", "read")
             /\ UNCHANGED <<file_hashes, found_files, present, idx>>
    /\ UNCHANGED <<inputs, disk, mainVars, dlVars, history, written, fetched,
                   apiCalls, dir, out>>

\* lines 126-134 and 151-153: the asset's details, its cover path, its cid
AssetsById ==
    /\ pc = "detail"
    /\ apiCalls' = apiCalls + 1
    /\ \E ok \in BOOLEAN :
        IF ~ok
        THEN /\ Finish("error", "detail")
             /\ UNCHANGED <<idx, cid, delays, fetched, out>>
        ELSE LET details == AssetDetailsOf(Cur.asset)
                 o_path  == get_high_res_cover_path(details)
                 found   == IF PrintsFound(details)
                            THEN Append(out, <<"found", Cur.asset>>) ELSE out
             IN  IF o_path = None
                 THEN /\ out' = Append(found, <<"nocover", Cur.asset>>)
                      /\ NextAsset
                      /\ UNCHANGED <<cid, delays, fetched>>
                 ELSE IF ~DrainOk(o_path[1])
                 THEN /\ Finish("panic", "drain")
                      /\ out' = found
                      /\ UNCHANGED <<idx, cid, delays, fetched>>
                 ELSE /\ cid' = Drain(o_path[1])
                      /\ delays' = retry_strategy
                      /\ fetched' = Append(fetched, Cur.asset)
                      /\ out' = found
                      /\ idx' = idx
                      /\ Continue("download")
    /\ UNCHANGED <<inputs, disk, mainVars, file_hashes, found_files, asset_data,
                   attempts, history, written, present, fsOps, dir>>

\* download_binary: one reqwest::get of Retry::spawn, and .bytes() of the
\* answer; then line 138
HttpGet ==
    /\ pc = "download"
    /\ \E o \in HttpOutcomes(cid) :
        CASE o = "err" ->
               IF delays = <<>>
               THEN /\ Finish("error", "fetch")
                    /\ attempts' = attempts + 1
                    /\ UNCHANGED <<idx, cid, asset_data, delays, out, found_files>>
               ELSE /\ delays' = Tail(delays)
                    /\ attempts' = attempts + 1
                    /\ Continue("download")
                    /\ UNCHANGED <<idx, cid, asset_data, out, found_files>>
          [] o = "body" ->
               /\ Finish("error", "body")
               /\ attempts' = attempts + 1
               /\ UNCHANGED <<idx, cid, asset_data, delays, out, found_files>>
          [] OTHER ->
               /\ attempts' = 0
               /\ delays' = <<>>
               /\ IF ~Seen(file_hashes, cid)
                  THEN /\ asset_data' = IF o = "ok" THEN ContentOf(cid) ELSE ErrorBody
                       /\ Continue("create")
                       /\ UNCHANGED <<idx, cid, out, found_files>>
                  ELSE /\ out' = Append(out, <<"same", Cur.asset>>)
                       /\ asset_data' = <<>>
                       /\ cid' = <<>>
                       /\ found_files' = AfterDuplicate(found_files)
                       /\ NextAsset
    /\ UNCHANGED <<inputs, disk, mainVars, file_hashes, history,
                   written, present, fetched, apiCalls, fsOps, dir>>

\* fs::write(&temp_filename, asset_data): the file is created or truncated,
CreateTemp ==
    /\ pc = "create"
    /\ fsOps' = fsOps + 1
    /\ \E ok \in BOOLEAN :
        IF ok
        THEN /\ disk' = WriteFile(disk, WriteTarget(Cur.asset), <<>>)
             /\ Continue(IF asset_data = <<>> THEN "rename" ELSE "write")
        ELSE Finish("error", "write") /\ disk' = disk
    /\ UNCHANGED <<inputs, mainVars, file_hashes, loopVars, dlVars, history,
                   written, present, fetched, apiCalls, dir, out>>

\* then its bytes are written, one after the other
WriteTemp ==
    /\ pc = "write"
    /\ \E ok \in BOOLEAN :
        IF ok
        THEN LET t == WriteTarget(Cur.asset)
                 n == Len(disk[t]) + 1
             IN  /\ disk' = WriteFile(disk, t, Append(disk[t], asset_data[n]))
                 /\ Continue(IF n = Len(asset_data) THEN "rename" ELSE "write")
        ELSE Finish("error", "write") /\ disk' = disk
    /\ UNCHANGED <<inputs, mainVars, file_hashes, loopVars, dlVars, history,
                   written, present, fetched, apiCalls, fsOps, dir, out>>

\* .and_then(|_| fs::rename(&temp_filename, &filename))?; then lines 142-143
Rename ==
    /\ pc = "rename"
    /\ fsOps' = fsOps + 1
    /\ \E ok \in BOOLEAN :
        IF ok
        THEN /\ disk' = RenameFile(disk, WriteTarget(Cur.asset), filename(Cur.asset))
             /\ file_hashes' = Insert(file_hashes, cid)
             /\ found_files' = found_files + 1
             /\ written' = written \cup
                    {[asset |-> Cur.asset, cid |-> cid, data |-> asset_data]}
             /\ cid' = <<>>
             /\ asset_data' = <<>>
             /\ NextAsset
        ELSE /\ Finish("error", "rename")
             /\ UNCHANGED <<disk, file_hashes, found_files, written, cid,
                            asset_data, idx>>
    /\ UNCHANGED <<inputs, mainVars, delays, attempts, history, present,
                   fetched, apiCalls, dir, out>>

\* the process is killed while the file is being written
Crash ==
    /\ pc \in {"create", "write", "rename"}
    /\ Finish("crashed", "killed")
    /\ UNCHANGED <<inputs, disk, mainVars, file_hashes, loopVars, dlVars,
                   history, written, present, fetched, apiCalls, fsOps, dir, out>>

----------------------------------------------------------------------------
(* The tool is run again, with the same arguments, on the same work
   directory.  A run that stopped before it enumerated the assets has changed
   nothing: the run after it is the run it was.  *)
Rerun ==
    /\ pc = "done"
    /\ run < MaxRuns
    /\ apiCalls > 0
    /\ run' = run + 1
    /\ prev' = IF result = "ok" THEN "ok" ELSE "failed"
    /\ disk0' = disk
    /\ pc' = "collections"
    /\ result' = "running"
    /\ collection_ids' = {}
    /\ file_hashes' = {}
    /\ file_count' = 0
    /\ chunk_no' = 0
    /\ files_needed' = 0
    /\ found_files' = 0
    /\ idx' = 0
    /\ cid' = <<>>
    /\ asset_data' = <<>>
    /\ delays' = <<>>
    /\ written' = {}
    /\ present' = <<>>
    /\ fetched' = <<>>
    /\ attempts' = 0
    /\ apiCalls' = 0
    /\ fsOps' = 0
    /\ dir' = "none"
    /\ fail' = ""
    /\ out' = <<>>
    /\ UNCHANGED <<inputs, disk>>

Next ==
    \/ Collections
    \/ AssetsPolicyById
    \/ NextChunk
    \/ Return
    \/ ExamineAsset
    \/ ReadExisting
    \/ AssetsById
    \/ HttpGet
    \/ CreateTemp
    \/ WriteTemp
    \/ Rename
    \/ Crash
    \/ Rerun

Spec == Init /\ [][Next]_vars

----------------------------------------------------------------------------
(* Properties *)

WrittenAssets == {w.asset : w \in written}
Skipped == {out[i][2] : i \in {j \in 1..Len(out) : out[j][1] = "same"}}
InvalidLine == << <<"invalid", policy_id>> >>

\* the cid fetch_files derives for an asset that has a cover path
CidOf(a) == Drain(get_high_res_cover_path(AssetDetailsOf(a))[1])

\* what download_binary can return for a cid
Bodies(c) == {ErrorBody} \cup (IF c \in Served THEN {ContentOf(c)} ELSE {})

\* C1: at every point of a run, the files written to a final path plus the
\* files found on disk and counted are at most max_files
C1_BudgetRespected == Cardinality(written) + Len(present) <= max_files

\* C1 witness: a run that ended in its second chunk, with a file counted as
\* present and a file written, the two together filling the budget
C1_Witness ==
    /\ result = "ok"
    /\ chunk_no = 2
    /\ written # {}
    /\ present # <<>>
    /\ Cardinality(written) + Len(present) = max_files

\* C2: no two files written in a run have the same cid, and an asset skipped
\* as a duplicate is not written while exactly one other asset with its cid is
C2_OneFilePerCid ==
    /\ \A v \in written : \A w \in written : v.cid = w.cid => v = w
    /\ \A a \in Skipped :
        /\ a \notin WrittenAssets
        /\ Cardinality({w \in written : w.cid = CidOf(a)}) = 1

\* C2 witness: the two assets with one cid are in different chunks, the first
\* is written and the second skipped
C2_Witness ==
    /\ result = "ok"
    /\ chunk_no = 2
    /\ Skipped = {"a2"}
    /\ WrittenAssets = {"a1"}

\* C3 (as claimed): the key inserted for a file found on disk is the key
\* looked up for another asset with the same content, so the program never
\* sets out to write, under another asset's name, the bytes of a file it has
\* counted as already on disk
C3_DiskContentNotRewritten ==
    pc = "create" =>
        \A i \in 1..Len(present) :
            present[i] # Cur.asset => disk[filename(present[i])] # asset_data

\* C4 (as claimed): a run that follows a completed run, on a work directory
\* that holds nothing but covers as the gateway serves them, invokes the
\* Content Fetcher for no asset and writes no file
C4_SecondRunIdle ==
    ( /\ prev = "ok"
      /\ \A p \in DOMAIN disk0 : \E c \in Served : disk0[p] = ContentOf(c) )
        => (fetched = <<>> /\ written = {})

\* C5 (as claimed): the Content Fetcher is not invoked for an asset whose cid
\* is in the dedup set
C5_NoFetchOfSeenCid == pc = "download" => cid \notin file_hashes

\* C6: every file at a final path is a file that was there when the run
\* started, or one the run renamed there holding all the bytes download_binary
\* returned for the asset's cid; whatever the step a failure or a kill came at
C6_FinalFilesComplete ==
    \A p \in DOMAIN disk :
        p[2] = "" =>
            \/ p \in DOMAIN disk0 /\ disk[p] = disk0[p]
            \/ \E w \in written :
                /\ filename(w.asset) = p
                /\ disk[p] = w.data
                /\ w.data \in Bodies(w.cid)

\* C6 witness: the process was killed with one of the two bytes of a cover
\* in the .tmp file, after another cover had been renamed to its final path
C6_Witness ==
    /\ result = "crashed"
    /\ written # {}
    /\ asset_data = ContentOf(CidA)
    /\ \E p \in DOMAIN disk : p[2] = ".tmp" /\ Len(disk[p]) = 1

\* C7 (as claimed): download_binary issues at most 3 GETs
C7_AtMostThreeGets == attempts <= RetryTake

\* C7 (amended): download_binary issues at most 4 GETs, the first and three
\* retries; when all four fail the run ends with the fetch error, that
\* download being the last one the run asked for
C7_AtMostFourGets ==
    /\ attempts <= RetryTake + 1
    /\ fail = "fetch" =>
        /\ attempts = RetryTake + 1
        /\ pc = "done"
        /\ result = "error"
        /\ fetched # <<>>
        /\ fetched[Len(fetched)] = Cur.asset

\* C7 witness: the fourth GET failed
C7_Witness == fail = "fetch" /\ attempts = RetryTake + 1

\* C8: the step that examines an asset whose quantity parses to a value <= 0
\* calls no API, requests nothing of the gateway, touches no file and leaves
\* the dedup set and the counters as they were
C8_NonHoldingUntouched ==
    [][ ( /\ pc = "asset"
          /\ idx <= Len(Chunk)
          /\ ParseI32(Cur.quantity).ok
          /\ ParseI32(Cur.quantity).val <= 0 )
        => UNCHANGED <<apiCalls, fetched, attempts, fsOps, disk, file_hashes,
                       found_files, file_count, written, present>> ]_vars

\* C8 witness: an asset of quantity -1 has been passed over, after a file was
\* written and with the budget not yet reached
C8_Witness ==
    /\ pc = "asset"
    /\ idx = 3
    /\ Chunk[2].quantity = QtyNeg
    /\ written # {}
    /\ found_files < files_needed

\* C9: when the directory service does not list the policy id, or answers
\* with a status that is no success, the run calls no blockchain-data API,
\* writes no file, prints the one line "invalid policy id" and ends with Ok
C9_InvalidPolicy ==
    dir \in {"unlisted", "status"} =>
        /\ pc = "done"
        /\ result = "ok"
        /\ apiCalls = 0
        /\ written = {}
        /\ disk = disk0
        /\ out = InvalidLine

\* C9 witness: the directory service answered with a set without the policy id
C9_Witness == dir = "unlisted" /\ result = "ok" /\ out = InvalidLine

\* C10 (as claimed): unreachable or answering with a status that is no
\* success, the directory service makes the run end with "invalid policy id"
C10_TransportNonFatal ==
    dir \in {"unreachable", "status"} =>
        /\ collection_ids = {}
        /\ result = "ok"
        /\ out = InvalidLine

\* C10 (amended): a status that is no success gives the empty set and the
\* "invalid policy id" line; an unreachable service ends the run with an error
\* and no line
C10_StatusNonFatal ==
    /\ dir = "status" =>
        /\ collection_ids = {}
        /\ result = "ok"
        /\ fail = ""
        /\ out = InvalidLine
    /\ dir = "unreachable" =>
        /\ result = "error"
        /\ fail = "collections"
        /\ out = <<>>

\* C10 witness: the request to the directory service failed
C10_Witness == dir = "unreachable" /\ result = "error" /\ out = <<>>

Counted == Cardinality(written) + Len(present)

\* C11 (as claimed): once a file has been written and the files counted equal
\* max_files, no quantity string of a remaining asset makes the run fail
C11_NoErrorPastBudget ==
    (fail = "quantity" /\ written # {}) => Counted < max_files

FetchPcs == {"asset", "read", "detail", "download", "create", "write", "rename"}
LastLine(o) == o[Len(o)][1]

\* what a step of fetch_files may do to found_files
CountingStep ==
    pc \in FetchPcs =>
        /\ (found_files' = found_files \/ found_files' = found_files + 1)
        /\ ( (found_files' = found_files + 1) <=>
                ( \/ ( /\ written' # written
                       /\ idx <= Len(Chunk)
                       /\ filename(Cur.asset) \notin DOMAIN disk
                       /\ filename(Cur.asset) \in DOMAIN disk' )
                  \/ ( /\ present' # present
                       /\ idx <= Len(Chunk)
                       /\ present' = Append(present, Cur.asset)
                       /\ filename(Cur.asset) \in DOMAIN disk ) ) )
        /\ ( (Len(out') > Len(out) /\ LastLine(out') \in {"same", "nocover"})
                => (found_files' = found_files /\ disk' = disk /\ written' = written) )

\* C12: a step of fetch_files adds one to found_files when it renames a file
\* to its final path or has read a file found on disk, and only then; a step
\* that prints "same as existing" or "without high-res cover" leaves the
\* counter and the disk as they were
C12_CountsFilesOnly ==
    [][CountingStep]_vars

\* C12 witness: the second of two assets with one cid has been skipped, the
\* counter at the one file written
C12_Witness ==
    /\ pc = "asset"
    /\ out # <<>>
    /\ LastLine(out) = "same"
    /\ found_files = 1
    /\ Cardinality(written) = 1

\* C13 (as claimed): a file the run renamed to a final path holds the content
\* the gateway serves for its cid with a success status, never the body of an
\* answer with another status
C13_OnlySuccessWritten ==
    \A w \in written : w.cid \in Served /\ w.data = ContentOf(w.cid)

\* a string of one or more ASCII digits: a non-negative integer
IsNatString(s) == s # <<>> /\ \A i \in 1..Len(s) : IsDigit(s[i])

\* C15 (as claimed): the run fails at the parse of a quantity, of an asset
\* examined with the budget not yet reached, only when the quantity string
\* does not denote a non-negative integer
C15_ErrorOnlyIfMalformed ==
    (fail = "quantity" /\ Counted < max_files) => ~IsNatString(Cur.quantity)

\* C17 (as claimed): the line "Found high-res cover" is printed only for an
\* asset whose metadata gives a cover path
C17_FoundOnlyWithCover ==
    \A i \in 1..Len(out) :
        out[i][1] = "found" =>
            get_high_res_cover_path(AssetDetailsOf(out[i][2])) # None

\* C20 (as claimed): whatever the cover path, removing its first 7 characters
\* does not abort the run
C20_DrainNeverAborts == fail # "drain"

\* the steps of an asset at which an Err ends the run
AssetSteps == {"quantity", "detail", "fetch", "body", "read", "write", "rename"}

\* the files at final paths are the ones the run found or put there
FinalFilesKept ==
    /\ \A p \in DOMAIN disk0 : p[2] = "" => (p \in DOMAIN disk /\ disk[p] = disk0[p])
    /\ \A w \in written :
        filename(w.asset) \in DOMAIN disk /\ disk[filename(w.asset)] = w.data

\* a run that follows a failed run asks nothing of the gateway for an asset
\* whose file it found on disk
RerunSkipsFilesOnDisk ==
    (run > 1 /\ prev = "failed") =>
        \A i \in 1..Len(fetched) : filename(fetched[i]) \notin DOMAIN disk0

\* C14 (as claimed): when a step of an asset fails the run ends with an
\* error, the files at final paths are unchanged, no file is at the final path
\* of the failing asset, and the next run does not fetch what is on disk
C14_AbortLeavesNoFile ==
    /\ fail \in AssetSteps =>
        /\ result = "error"
        /\ FinalFilesKept
        /\ filename(Cur.asset) \notin DOMAIN disk
    /\ RerunSkipsFilesOnDisk

\* C14 (amended): as claimed, but the failing asset's final path is as it was
\* before the asset was examined: empty when the failing step is the detail
\* call, the download, the write or the rename; holding its file when the
\* failing step is the read of that file
C14_AbortLeavesFilesAsFound ==
    /\ fail \in AssetSteps =>
        /\ result = "error"
        /\ pc = "done"
        /\ FinalFilesKept
        /\ fail \in {"detail", "fetch", "body", "write", "rename"}
              => filename(Cur.asset) \notin DOMAIN disk
        /\ fail = "read" => filename(Cur.asset) \in DOMAIN disk
        /\ filename(Cur.asset) \in DOMAIN disk
              => (filename(Cur.asset) \in DOMAIN disk0 \/ Cur.asset \in WrittenAssets)
    /\ RerunSkipsFilesOnDisk

\* C14 witness: the run after a failed run counts the file that run wrote for
\* a3 as already downloaded and fetches nothing for it
C14_Witness ==
    /\ run = 2
    /\ prev = "failed"
    /\ filename("a3") \in DOMAIN disk0
    /\ \E i \in 1..Len(present) : present[i] = "a3"
    /\ \A i \in 1..Len(fetched) : fetched[i] # "a3"

\* what is left of the work on one asset, by the place in main and fetch_files
PcRank ==
    CASE pc = "collections" -> 12
      [] pc = "enumerate"   -> 11
      [] pc = "asset"       -> 10
      [] pc = "read"        -> 9
      [] pc = "detail"      -> 9
      [] pc = "download"    -> 8
      [] pc = "create"      -> 7
      [] pc = "write"       -> 6
      [] pc = "rename"      -> 5
      [] pc = "ret"         -> 4
      [] pc = "loop"        -> 3
      [] OTHER              -> 0

\* the bytes of the downloaded file still to be written
BytesLeft ==
    IF pc = "write"
    THEN Len(asset_data) - Len(disk[WriteTarget(Cur.asset)])
    ELSE 0

\* how many chunks assets.chunks(chunk_size) yields
NumChunks == (Len(assets) + chunk_size - 1) \div chunk_size

\* the place of the current asset in the enumeration
Position == (chunk_no - 1) * chunk_size + idx

\* the measure of what is left of a run: the chunks still to visit, the
\* assets of the current chunk still to visit, then what is left of the
\* current asset: the place, the retries, the bytes.  A step lowers it in the
\* lexicographic order
Lowered ==
    \/ chunk_no' > chunk_no
    \/ /\ chunk_no' = chunk_no
       /\ \/ idx' > idx
          \/ /\ idx' = idx
             /\ \/ PcRank' < PcRank
                \/ /\ PcRank' = PcRank
                   /\ \/ Len(delays') < Len(delays)
                      \/ /\ Len(delays') = Len(delays)
                         /\ BytesLeft' < BytesLeft

\* and each of its parts stays a natural number
Bounded ==
    /\ chunk_no' <= NumChunks
    /\ idx' <= chunk_size + 1
    /\ BytesLeft' >= 0

InRunStep ==
    run' = run =>
        /\ Lowered
        /\ Bounded
        /\ assets' = assets
        /\ chunk_no' \in {chunk_no, chunk_no + 1}
        /\ chunk_no' = chunk_no => idx' \in {idx, idx + 1}
        /\ chunk_no' = chunk_no + 1 =>
              /\ idx' = 1
              /\ pc = "loop"
              /\ chunk_no > 0 => Len(Chunk) = chunk_size
        /\ (pc' \in FetchPcs /\ idx' # idx) =>
              LET c == Chunk'
              IN  /\ Len(c) <= chunk_size
                  /\ idx' <= Len(c) => c[idx'] = assets[Position']

\* C16: a run takes finitely many steps, each of them a call that returns:
\* every step of a run lowers a measure that cannot go below zero.  The assets
\* are visited in the order of the enumeration, in chunks of 10, a chunk or an
\* asset never a second time.
C16_RunTerminates == [][InRunStep]_vars

\* C16 witness: a run over eleven assets has gone through both chunks, written
\* a file in each, and ended
C16_Witness ==
    /\ pc = "done"
    /\ result = "ok"
    /\ Len(assets) = chunk_size + 1
    /\ chunk_no = 2
    /\ Position = Len(assets) + 1
    /\ Cardinality(written) = 2

\* C18: file_count never exceeds max_files as unsigned 32-bit numbers, so
\* max_files - file_count never underflows; within a call of fetch_files,
\* found_files never exceeds the files_needed the call was given
C18_NoUnderflow ==
    /\ ~GtU32(file_count, max_files)
    /\ fail # "subtract"
    /\ pc \in FetchPcs \cup {"ret"} =>
        /\ files_needed = max_files - file_count
        /\ files_needed >= 0
        /\ found_files <= files_needed

\* C18 witness: the second call of fetch_files is given what the first call
\* left of a budget of two
C18_Witness ==
    /\ pc = "asset"
    /\ chunk_no = 2
    /\ max_files = 2
    /\ file_count = 1
    /\ files_needed = 1
    /\ found_files = 1

\* the final paths that held a file when the run started
Preexisting == {p \in DOMAIN disk0 : p[2] = ""}

\* C19: a file at a final path when the run starts stays there with its
\* bytes; the run fetches and writes only for an asset with no file at its
\* final path, and what it writes goes to a path that held no file
C19_PreexistingUntouched ==
    /\ \A p \in Preexisting : p \in DOMAIN disk /\ disk[p] = disk0[p]
    /\ \A w \in written : filename(w.asset) \notin Preexisting
    /\ pc \in {"detail", "download", "create", "write", "rename"} =>
          filename(Cur.asset) \notin DOMAIN disk

\* C19 witness: a run that found a1's file on disk has counted it and
\* written the file of another asset next to it
C19_Witness ==
    /\ filename("a1") \in Preexisting
    /\ present # <<>>
    /\ written # {}
    /\ disk[filename("a1")] = disk0[filename("a1")]

====
